---- MODULE Spec2Model ----
(***************************************************************************)
(* Model of the logic of the site:                                         *)
(*                                                                         *)
(*   - the header component (scroll listener installed in onMounted, the   *)
(*     template's class binding on #header, toggleNavDrawer and the        *)
(*     computed socialLinks), and                                          *)
(*   - the title and formatCanonicalURL of the base head.                  *)
(*                                                                         *)
(* Strings that the code inspects character by character (URLs) are        *)
(* sequences of one-character strings.  Inline styles and class names are  *)
(* plain strings.  headerClass is the set of the state classes             *)
(* (header-hide, header-bg-color) in the class attribute of #header: the   *)
(* script changes it through classList, and a render of the component      *)
(* rewrites the attribute when the value the template binds has changed.   *)
(***************************************************************************)
EXTENDS Integers, Sequences, FiniteSets

VARIABLES
    mounted,          \* onMounted has run
    scroll,           \* useWindowScroll().y : the reactive scroll offset (0 until
                      \* the composable's mounted hook reads the window's)
    oldScroll,        \* ref(unref(scroll)) : the last recorded offset
    headerClass,      \* state classes in the class attribute of #header
    last,             \* the last scroll event: the state it found, the branches it ran
    drawerTransform,  \* .nav-drawer  element.style.transform (inline)
    maskDisplay,      \* .nav-drawer-mask  element.style.display (inline)
    toggles,          \* number of toggleNavDrawer calls so far
    url,              \* the argument first handed to formatCanonicalURL
    canon,            \* the successive results of formatCanonicalURL
    pageTitle,        \* Astro.props.title
    title,            \* const title of the base head
    configuredLinks,  \* socialLinks as written in the site configuration
    socialLinks,      \* siteConfig.socialLinks
    shownLinks,       \* the value of the header's computed socialLinks
    evaluations       \* number of evaluations of the computed socialLinks

vars == <<mounted, scroll, oldScroll, headerClass, last,
          drawerTransform, maskDisplay, toggles, url, canon,
          pageTitle, title, configuredLinks, socialLinks, shownLinks,
          evaluations>>

headerVars == <<mounted, scroll, oldScroll, headerClass, last,
                drawerTransform, maskDisplay, toggles>>

urlVars == <<url, canon>>

titleVars == <<pageTitle, title>>

linkVars == <<configuredLinks, socialLinks, shownLinks, evaluations>>

----------------------------------------------------------------------------
(* Bounds of the model *)

MaxScroll == 451

MaxToggles == 3

MaxLen == 4

MaxApplications == 2

\* Scroll offsets: every multiple of 50 up to MaxScroll with its two
\* neighbours, and the two sides of the template's threshold.
Offsets == {n \in 0..MaxScroll : n % 50 \in {0, 1, 49}} \cup {20, 21}

MaxTitleLen == 4

MaxHeaderLen == 2

MaxEvaluations == 2

\* Characters of the modelled page titles: a letter and those of the separator.
TitleChars == {"a", " ", "|"}

RECURSIVE TitlesOfLen(_)
TitlesOfLen(n) ==
    IF n = 0 THEN {<<>>}
    ELSE {Append(s, c) : s \in TitlesOfLen(n - 1), c \in TitleChars}

\* The page titles: absent, empty, or a string up to MaxTitleLen.
PageTitles ==
    {[defined |-> FALSE, value |-> <<>>]}
        \cup {[defined |-> TRUE, value |-> s] :
                  s \in UNION {TitlesOfLen(n) : n \in 0..MaxTitleLen}}

\* Characters of the modelled URLs: a letter, the slash and the question mark.
Chars == {"a", "/", "?"}

RECURSIVE StringsOfLen(_)
StringsOfLen(n) ==
    IF n = 0 THEN {<<>>}
    ELSE {Append(s, c) : s \in StringsOfLen(n - 1), c \in Chars}

URLs == UNION {StringsOfLen(n) : n \in 0..MaxLen}

----------------------------------------------------------------------------
(* Header: constants of the component *)

HeaderHide == "header-hide"

HeaderBgColor == "header-bg-color"

DrawerIn == "translateX(0%)"

DrawerOut == "translateX(-100%)"

----------------------------------------------------------------------------
(* Header: the scroll listener *)

\* The early exit taken too early: offsets from 100 up fall through.
BelowTopLow(s) == s < 100

\* if (scroll.value < 150)
BelowTop(s) == s < 150

\* The comparison made inclusive: a move of exactly 150 counts.
ScrolledDownInclusive(s, old) == s - old >= 150

\* if (scroll.value - oldScroll.value > 150)
ScrolledDown(s, old) == s - old > 150

\* The second comparison written on the wrong difference.
ScrolledUpMiswritten(s, old) == s - old < 150

\* if (oldScroll.value - scroll.value > 150)
ScrolledUp(s, old) == old - s > 150

\* The second if without its assignment to oldScroll.
ShowBranchNoRecord(s, st) ==
    [classes  |-> st.classes \ {HeaderHide},
     old      |-> st.old,
     branches |-> st.branches \cup {"show"}]

\* The body of the second if: show the header and record the offset.
ShowBranch(s, st) ==
    [classes  |-> st.classes \ {HeaderHide},
     old      |-> s,
     branches |-> st.branches \cup {"show"}]

\* The first if without its assignment to oldScroll.
HideBranchNoRecord(s, st) ==
    [classes  |-> st.classes \cup {HeaderHide},
     old      |-> st.old,
     branches |-> st.branches \cup {"hide"}]

\* The body of the first if: hide the header and record the offset.
HideBranch(s, st) ==
    [classes  |-> st.classes \cup {HeaderHide},
     old      |-> s,
     branches |-> st.branches \cup {"hide"}]

\* The body of the early exit: show the header, then return.
TopBranch(s, st) ==
    [classes  |-> st.classes \ {HeaderHide},
     old      |-> st.old,
     branches |-> {"top"}]

\* The listener, run with scroll.value = s on the state st = [classes, old]:
\* an early return, then two sequential ifs, the second reading the
\* oldScroll the first may have just written.
ScrollListener(s, classes, old) ==
    LET st0 == [classes |-> classes, old |-> old, branches |-> {}]
    IN  IF BelowTop(s) THEN TopBranch(s, st0)
        ELSE LET st1 == IF ScrolledDown(s, st0.old) THEN HideBranch(s, st0) ELSE st0
                 st2 == IF ScrolledUp(s, st1.old) THEN ShowBranch(s, st1) ELSE st1
             IN  st2

\* document.documentElement.scrollTop > 100
MountedPastTop(top) == top > 100

\* The binding with the threshold of the check at mount.
BoundBgColorPast100(s) == s > 100

\* The binding made inclusive.
BoundBgColorInclusive(s) == s >= 20

\* :class="{ 'header-bg-color': scroll > 20 }"
BoundBgColor(s) == s > 20

\* The render that follows a change of scroll: the class attribute is
\* rewritten from the template when the bound value differs from the one
\* rendered before (was), and left alone otherwise.
RenderPatch(classes, was, now) ==
    IF was = now THEN classes
    ELSE IF now THEN {HeaderBgColor} ELSE {}

\* The state classes the template renders at the offset s: header-bg-color
\* when the binding holds, and never header-hide.
RenderedClasses(s) == IF BoundBgColor(s) THEN {HeaderBgColor} ELSE {}

hidden == HeaderHide \in headerClass

backgroundSolid == HeaderBgColor \in headerClass

----------------------------------------------------------------------------
(* Header: the drawer *)

\* toggleNavDrawer comparing with a string the style never holds.
ToggleStylesBareZero(transform, display) ==
    IF transform = "translateX(0)"
    THEN [transform |-> DrawerOut, display |-> "none"]
    ELSE [transform |-> DrawerIn, display |-> "block"]

\* toggleNavDrawer closing the drawer without hiding the mask.
ToggleStylesMaskKept(transform, display) ==
    IF transform = DrawerIn
    THEN [transform |-> DrawerOut, display |-> display]
    ELSE [transform |-> DrawerIn, display |-> "block"]

\* toggleNavDrawer on the inline styles of the drawer and the mask.
ToggleStyles(transform, display) ==
    IF transform = DrawerIn
    THEN [transform |-> DrawerOut, display |-> "none"]
    ELSE [transform |-> DrawerIn, display |-> "block"]

\* The style sheet's rule applies while the inline style is unset.
ComputedTransform == IF drawerTransform = "" THEN DrawerOut ELSE drawerTransform

ComputedDisplay == IF maskDisplay = "" THEN "none" ELSE maskDisplay

drawerOpen == ComputedTransform = DrawerIn

maskDisplayed == ComputedDisplay = "block"

----------------------------------------------------------------------------
(* Canonical URL *)

\* path.includes('?')
Includes(path, c) == \E i \in 1..Len(path) : path[i] = c

\* The regular expression /\/?$/ tried at the 0-based position i of path:
\* the length of the match (greedy: the slash first, then nothing), or -1.
MatchAt(path, i) ==
    IF i < Len(path) /\ path[i + 1] = "/" /\ i + 1 = Len(path) THEN 1
    ELSE IF i = Len(path) THEN 0
    ELSE -1

\* The replacement with the pattern /$/: nothing is removed.
ReplaceAtEnd(path, repl) == path \o repl

\* path.replace(/\/?$/, repl): the leftmost match is replaced.
ReplaceTrailingSlash(path, repl) ==
    LET i == CHOOSE k \in 0..Len(path) :
                 /\ MatchAt(path, k) >= 0
                 /\ \A j \in 0..(k - 1) : MatchAt(path, j) < 0
    IN  SubSeq(path, 1, i) \o repl

\* The statement with its result assigned back to path.
StripStatementAssigned(path, hasQueryParams) ==
    IF hasQueryParams THEN ReplaceTrailingSlash(path, <<>>) ELSE path

\* if (hasQueryParams) path.replace(/\/?$/, '')
\* The value of path after the statement: the replaced string is dropped.
StripStatement(path, hasQueryParams) == path

\* The function with the two replacement strings exchanged.
formatCanonicalURLExchanged(u) ==
    LET path0 == u
        hasQueryParams == Includes(path0, "?")
        path == StripStatement(path0, hasQueryParams)
    IN  ReplaceTrailingSlash(path, IF hasQueryParams THEN <<"/">> ELSE <<>>)

\* The function appending the slash whether or not there is a query.
formatCanonicalURLAlwaysSlash(u) ==
    LET path0 == u
        hasQueryParams == Includes(path0, "?")
        path == StripStatement(path0, hasQueryParams)
    IN  ReplaceTrailingSlash(path, <<"/">>)

formatCanonicalURL(u) ==
    LET path0 == u
        hasQueryParams == Includes(path0, "?")
        path == StripStatement(path0, hasQueryParams)
    IN  ReplaceTrailingSlash(path, IF hasQueryParams THEN <<>> ELSE <<"/">>)

----------------------------------------------------------------------------
(* Page title *)

\* An optional string: undefined, or a string of characters.
Undefined == [defined |-> FALSE, value |-> <<>>]

Str(s) == [defined |-> TRUE, value |-> s]

\* siteConfig.title
SiteTitle == <<"C", "o", "d", "e", "r", "i", "k">>

\* The separator handed to join.
TitleSeparator == <<" ", "|", " ">>

\* Boolean(v) for an optional string: undefined and '' are falsy.
Truthy(v) == v.defined /\ v.value # <<>>

\* Array.prototype.filter(Boolean) on an array of optional strings.
FilterTruthy(parts) == SelectSeq(parts, Truthy)

\* Array.prototype.join: undefined elements are joined as ''.
RECURSIVE JoinStrings(_, _)
JoinStrings(parts, sep) ==
    IF parts = <<>> THEN <<>>
    ELSE IF Len(parts) = 1 THEN parts[1].value
    ELSE parts[1].value \o sep \o JoinStrings(Tail(parts), sep)

\* The title joined without the filter.
ResolveTitleUnfiltered(pt) ==
    JoinStrings(<<pt, Str(SiteTitle)>>, TitleSeparator)

\* [Astro.props.title, siteConfig.title].filter(Boolean).join(' | ')
ResolveTitle(pt) ==
    JoinStrings(FilterTruthy(<<pt, Str(SiteTitle)>>), TitleSeparator)

TitleIdle ==
    /\ pageTitle = Undefined
    /\ title = Undefined

----------------------------------------------------------------------------
(* Social links *)

\* The header field of a link: undefined, a boolean, or a string.
NoHeader == [kind |-> "undefined", flag |-> FALSE, value |-> <<>>]

BoolHeader(b) == [kind |-> "boolean", flag |-> b, value |-> <<>>]

StrHeader(s) == [kind |-> "string", flag |-> FALSE, value |-> s]

GitHubIcon == <<"i", "-", "s", "i", "m", "p", "l", "e", "-", "i", "c", "o", "n", "s", "-", "g", "i", "t", "h", "u", "b">>

GitHubHeader == <<"i", "-", "r", "i", "-", "g", "i", "t", "h", "u", "b", "-", "l", "i", "n", "e">>

LinkedinIcon == <<"i", "-", "s", "i", "m", "p", "l", "e", "-", "i", "c", "o", "n", "s", "-", "l", "i", "n", "k", "e", "d", "i", "n">>

\* siteConfig.socialLinks as configured.
SiteSocialLinks ==
    <<[text |-> "GitHub", href |-> "https://github.com/erikvdven",
       icon |-> Str(GitHubIcon), header |-> StrHeader(GitHubHeader)],
      [text |-> "Linkedin", href |-> "",
       icon |-> Str(LinkedinIcon), header |-> NoHeader]>>

\* The truthiness of link.header.
HeaderTruthy(h) ==
    \/ h.kind = "boolean" /\ h.flag
    \/ h.kind = "string" /\ h.value # <<>>

\* link.header.includes('i-')
IncludesIconPrefix(s) ==
    \E i \in 1..(Len(s) - 1) : s[i] = "i" /\ s[i + 1] = "-"

\* The callback of the filter on one link: whether the link is kept, and
\* the link as the callback leaves it.
FilterLink(link) ==
    IF HeaderTruthy(link.header) /\ link.header.kind = "boolean"
    THEN [keep |-> TRUE, link |-> link]
    ELSE IF HeaderTruthy(link.header) /\ link.header.kind = "string"
    THEN [keep |-> TRUE,
          link |-> [link EXCEPT !.icon =
                       IF IncludesIconPrefix(link.header.value)
                       THEN Str(link.header.value)
                       ELSE link.icon]]
    ELSE [keep |-> FALSE, link |-> link]

\* One evaluation of the computed socialLinks on the array links: the array
\* as the callbacks leave it, and the links the filter returns.
EvaluateSocialLinks(links) ==
    LET after == [i \in 1..Len(links) |-> FilterLink(links[i]).link]
        kept(l) == FilterLink(l).keep
    IN  [links |-> after, shown |-> SelectSeq(after, kept)]

LinksIdle ==
    /\ configuredLinks = SiteSocialLinks
    /\ socialLinks = SiteSocialLinks
    /\ shownLinks = <<>>
    /\ evaluations = 0

----------------------------------------------------------------------------
(* The header's behaviour *)

\* No scroll event has been handled yet.
NoEvent == [seen |-> FALSE, classes |-> {}, old |-> 0, branches |-> {}]

\* The state after setup and the first render: the reactive offset is 0,
\* oldScroll is its copy, and the header carries what the template renders
\* at 0.
HeaderInit ==
    /\ mounted = FALSE
    /\ scroll = 0
    /\ oldScroll = scroll
    /\ headerClass = RenderedClasses(scroll)
    /\ last = NoEvent
    /\ drawerTransform = ""
    /\ maskDisplay = ""
    /\ toggles = 0

URLIdle ==
    /\ url = <<>>
    /\ canon = <<>>

Init == HeaderInit /\ URLIdle /\ TitleIdle /\ LinksIdle

\* The component is mounted with the window at the offset top: the reactive
\* offset takes the window's, onMounted makes its one check of scrollTop and
\* installs the listener, and the render that the change of scroll calls
\* for applies the template's binding.  oldScroll keeps the value of setup.
OnMounted(top) ==
    /\ ~mounted
    /\ mounted' = TRUE
    /\ scroll' = top
    /\ LET checked == IF MountedPastTop(top)
                      THEN headerClass \cup {HeaderBgColor}
                      ELSE headerClass
       IN  headerClass' =
               RenderPatch(checked, BoundBgColor(scroll), BoundBgColor(top))
    /\ UNCHANGED <<oldScroll, last, drawerTransform, maskDisplay,
                   toggles, url, canon, titleVars, linkVars>>

OnMount == \E top \in Offsets : OnMounted(top)

\* A scroll event at offset s: the reactive offset is updated and the
\* component rendered, then the listener runs.
ScrollEvent(s) ==
    /\ mounted
    /\ LET rendered == RenderPatch(headerClass, BoundBgColor(scroll), BoundBgColor(s))
           r == ScrollListener(s, rendered, oldScroll)
       IN  /\ scroll' = s
           /\ headerClass' = r.classes
           /\ oldScroll' = r.old
           /\ last' = [seen |-> TRUE, classes |-> headerClass, old |-> oldScroll,
                       branches |-> r.branches]
    /\ UNCHANGED <<mounted, drawerTransform, maskDisplay, toggles, url, canon,
                   titleVars, linkVars>>

OnScroll == \E s \in Offsets : ScrollEvent(s)

\* A click on the menu button, on a link of the drawer or on the mask.
ToggleNavDrawer(src) ==
    /\ mounted
    /\ toggles < MaxToggles
    /\ LET r == ToggleStyles(drawerTransform, maskDisplay)
       IN  /\ drawerTransform' = r.transform
           /\ maskDisplay' = r.display
    /\ toggles' = toggles + 1
    /\ UNCHANGED <<mounted, scroll, oldScroll, headerClass, last,
                   url, canon, titleVars, linkVars>>

OnClick == \E src \in {"menu", "link", "mask"} : ToggleNavDrawer(src)

Next == OnMount \/ OnScroll \/ OnClick

Spec == Init /\ [][Next]_vars

----------------------------------------------------------------------------
(* The canonical URL's behaviour *)

HeaderIdle ==
    /\ mounted = FALSE
    /\ scroll = 0
    /\ oldScroll = 0
    /\ headerClass = RenderedClasses(0)
    /\ last = NoEvent
    /\ drawerTransform = ""
    /\ maskDisplay = ""
    /\ toggles = 0

InitURL ==
    /\ HeaderIdle
    /\ TitleIdle
    /\ LinksIdle
    /\ url \in URLs
    /\ canon = <<>>

\* formatCanonicalURL applied to the URL, then to its own result.
FormatCanonical ==
    /\ Len(canon) < MaxApplications
    /\ canon' = Append(canon,
                       formatCanonicalURL(IF canon = <<>> THEN url
                                          ELSE canon[Len(canon)]))
    /\ UNCHANGED <<url, headerVars, titleVars, linkVars>>

NextURL == FormatCanonical

SpecURL == InitURL /\ [][NextURL]_vars

----------------------------------------------------------------------------
(* The page title's behaviour *)

InitTitle ==
    /\ HeaderIdle
    /\ URLIdle
    /\ LinksIdle
    /\ pageTitle \in PageTitles
    /\ title = Undefined

\* The frontmatter of the base head computes the title of the page.
RenderTitle ==
    /\ ~title.defined
    /\ title' = Str(ResolveTitle(pageTitle))
    /\ UNCHANGED <<pageTitle, headerVars, urlVars, linkVars>>

NextTitle == RenderTitle

SpecTitle == InitTitle /\ [][NextTitle]_vars

----------------------------------------------------------------------------
(* The social links' behaviour *)

RECURSIVE HeaderStringsOfLen(_)
HeaderStringsOfLen(n) ==
    IF n = 0 THEN {<<>>}
    ELSE {Append(s, c) : s \in HeaderStringsOfLen(n - 1), c \in {"i", "-"}}

\* Values of a link's header field: absent, a boolean, the configured
\* string, or a short string.
HeaderValues ==
    {NoHeader, BoolHeader(TRUE), BoolHeader(FALSE), StrHeader(GitHubHeader)}
        \cup {StrHeader(s) :
                  s \in UNION {HeaderStringsOfLen(n) : n \in 0..MaxHeaderLen}}

\* Configurations: the configured links, each with any header value and
\* with or without its icon.
LinkConfigs ==
    {[i \in 1..Len(SiteSocialLinks) |->
         [SiteSocialLinks[i] EXCEPT !.header = hs[i],
                                    !.icon = IF ic[i] THEN @ ELSE Undefined]] :
        hs \in [1..Len(SiteSocialLinks) -> HeaderValues],
        ic \in [1..Len(SiteSocialLinks) -> BOOLEAN]}

InitLinks ==
    /\ HeaderIdle
    /\ URLIdle
    /\ TitleIdle
    /\ configuredLinks \in LinkConfigs
    /\ socialLinks = configuredLinks
    /\ shownLinks = <<>>
    /\ evaluations = 0

\* The header is rendered: the computed socialLinks is evaluated.
RenderSocialLinks ==
    /\ evaluations < MaxEvaluations
    /\ LET r == EvaluateSocialLinks(socialLinks)
       IN  /\ socialLinks' = r.links
           /\ shownLinks' = r.shown
    /\ evaluations' = evaluations + 1
    /\ UNCHANGED <<configuredLinks, headerVars, urlVars, titleVars>>

NextLinks == RenderSocialLinks

SpecLinks == InitLinks /\ [][NextLinks]_vars

----------------------------------------------------------------------------
(* Properties of the header *)

\* C1: a scroll event at an offset below 150 leaves the header visible,
\* whatever it was before and however far the offset is from oldScroll; only
\* the early exit runs, so oldScroll is not written.
C1_BelowTopForcesVisible ==
    [][\A s \in Offsets :
          (ScrollEvent(s) /\ s < 150) =>
              /\ ~hidden'
              /\ oldScroll' = oldScroll
              /\ last'.branches = {"top"}]_vars

\* C1 happens: a hidden header, recorded far away, was shown by the early exit.
C1_Witness ==
    /\ last.seen
    /\ scroll < 150
    /\ HeaderHide \in last.classes
    /\ last.old - scroll > 150
    /\ ~hidden
    /\ oldScroll = last.old

\* C2: a scroll event at an offset of 150 or more that is further than 150
\* from oldScroll hides the header when it moved down, shows it when it moved
\* up, and records the offset; from oldScroll = 0 the events 200 and 400
\* leave the header hidden.
C2_FarMoveHidesOrShows ==
    [][/\ \A s \in Offsets :
            (ScrollEvent(s) /\ s >= 150
                /\ (s - oldScroll > 150 \/ oldScroll - s > 150)) =>
                /\ oldScroll' = s
                /\ (s > oldScroll => hidden')
                /\ (s < oldScroll => ~hidden')
       /\ LET e1 == ScrollListener(200, {}, 0)
              e2 == ScrollListener(400, e1.classes, e1.old)
          IN  HeaderHide \in e2.classes /\ e2.old = 400]_vars

\* C2 happens: a move down by more than 150 hid a visible header.
C2_Witness ==
    /\ last.seen
    /\ scroll >= 150
    /\ scroll - last.old > 150
    /\ HeaderHide \notin last.classes
    /\ hidden
    /\ oldScroll = scroll

\* C3: a scroll event at an offset of 150 or more that is within 150 of
\* oldScroll changes neither the hidden state nor oldScroll.
C3_NearMoveChangesNothing ==
    [][\A s \in Offsets :
          (ScrollEvent(s) /\ s >= 150
              /\ s - oldScroll <= 150 /\ oldScroll - s <= 150) =>
              /\ hidden' = hidden
              /\ oldScroll' = oldScroll]_vars

\* C3 happens: a move of exactly 150 left a hidden header hidden.
C3_Witness ==
    /\ last.seen
    /\ scroll >= 150
    /\ scroll - last.old = 150
    /\ last.branches = {}
    /\ hidden
    /\ oldScroll = last.old

\* C4: after n calls of toggleNavDrawer the drawer is open exactly when n is
\* odd; in particular two calls bring it back to closed.
C4_OpenIffOddToggles ==
    /\ drawerOpen <=> toggles % 2 = 1
    /\ toggles = 2 => ~drawerOpen /\ ~maskDisplayed

\* C4 happens: the drawer was opened and closed again.
C4_Witness ==
    /\ toggles = 2
    /\ drawerTransform = DrawerOut
    /\ ~drawerOpen

\* C5: the mask is displayed exactly when the drawer is open.
C5_MaskIffDrawerOpen == maskDisplayed <=> drawerOpen

\* C5 happens: the drawer is open behind a displayed mask after a reopening.
C5_Witness ==
    /\ toggles = 3
    /\ drawerOpen
    /\ maskDisplayed

\* C6 as claimed: right after mount, before any scroll event, the
\* background is solid exactly when the offset at mount exceeds 100.
C6_SolidAtMountIffPast100 ==
    (mounted /\ ~last.seen) => (backgroundSolid <=> scroll > 100)

\* C6 amended: right after mount, before any scroll event, the background
\* is solid exactly when the offset at mount exceeds 20, the threshold of
\* the template's binding: solid at 150, transparent at 0, and solid also
\* from 21 to 100, where the check of onMounted adds nothing.
C6_SolidAtMountIffPast20 ==
    (mounted /\ ~last.seen) => (backgroundSolid <=> scroll > 20)

\* C6 happens: mounted between the two thresholds with a solid background.
C6_Witness ==
    /\ mounted
    /\ ~last.seen
    /\ scroll = 50
    /\ backgroundSolid

\* C13: in one scroll event at most one of the two delta branches runs: the
\* hide branch and the show branch never both run, although they are two
\* sequential ifs with oldScroll assigned in between.
C13_AtMostOneDeltaBranch ==
    last.seen =>
        /\ ~({"hide", "show"} \subseteq last.branches)
        /\ "top" \in last.branches => last.branches = {"top"}

\* C13 happens: the show branch ran alone on a hidden header at an offset of
\* 150 or more.
C13_Witness ==
    /\ last.seen
    /\ last.branches = {"show"}
    /\ HeaderHide \in last.classes
    /\ scroll >= 150
    /\ last.old - scroll > 150
    /\ ~hidden

\* C14 as claimed: no scroll event changes whether the background is solid.
C14_ScrollNeverChangesBackground ==
    last.seen => (backgroundSolid <=> HeaderBgColor \in last.classes)

\* C14 amended: a scroll event changes the background only by crossing the
\* offset 20 of the template's binding: the background is solid after an
\* event that moves from 20 or less to more than 20, transparent after one
\* that moves from more than 20 to 20 or less, and as it was after any other;
\* the listener itself never changes it.
C14_BackgroundFollowsBindingCrossing ==
    [][\A s \in Offsets :
          ScrollEvent(s) =>
              /\ (scroll <= 20 /\ s > 20) => backgroundSolid'
              /\ (scroll > 20 /\ s <= 20) => ~backgroundSolid'
              /\ ((scroll > 20) <=> (s > 20)) =>
                     (backgroundSolid' <=> backgroundSolid)]_vars

\* C14 happens: a header mounted transparent became solid in a scroll event.
C14_Witness ==
    /\ last.seen
    /\ HeaderBgColor \notin last.classes
    /\ backgroundSolid
    /\ scroll > 20

\* C15: after a scroll event at an offset of 150 or more, the offset is
\* within 150 of oldScroll; oldScroll is only ever overwritten with the
\* offset of such an event, and an event below 150 leaves it as it was.
C15_Hysteresis ==
    [][\A s \in Offsets :
          ScrollEvent(s) =>
              /\ s >= 150 => (s - oldScroll' <= 150 /\ oldScroll' - s <= 150)
              /\ oldScroll' # oldScroll => (oldScroll' = s /\ s >= 150)
              /\ s < 150 => oldScroll' = oldScroll]_vars

\* C15 happens: oldScroll, below 150 since mount, was overwritten with an
\* offset of 150 or more.
C15_Witness ==
    /\ last.seen
    /\ last.old < 150
    /\ last.branches = {"hide"}
    /\ scroll >= 150
    /\ oldScroll = scroll

----------------------------------------------------------------------------
(* Properties of the canonical URL *)

\* The argument of the i-th application of formatCanonicalURL.
Arg(i) == IF i = 1 THEN url ELSE canon[i - 1]

EndsWith(s, suffix) ==
    /\ Len(s) >= Len(suffix)
    /\ SubSeq(s, Len(s) - Len(suffix) + 1, Len(s)) = suffix

HasQuery(s) == \E i \in 1..Len(s) : s[i] = "?"

\* C7: for a URL with no '?', formatting the formatted URL again gives the
\* same string.
C7_IdempotentWithoutQuery ==
    (~HasQuery(url) /\ Len(canon) >= 2) => canon[2] = canon[1]

\* C7 happens: a URL without a slash at its end was formatted twice.
C7_Witness ==
    /\ Len(canon) >= 2
    /\ ~HasQuery(url)
    /\ Len(url) >= 2
    /\ ~EndsWith(url, <<"/">>)
    /\ canon[1] # url
    /\ canon[2] = canon[1]

\* C8 as claimed: for a URL with no '?' the result ends with exactly one
\* '/', never with '//', also when the URL ends in several slashes.
C8_ExactlyOneTrailingSlash ==
    \A i \in 1..Len(canon) :
        ~HasQuery(Arg(i)) =>
            /\ EndsWith(canon[i], <<"/">>)
            /\ ~EndsWith(canon[i], <<"/", "/">>)

\* C8 amended: for a URL with no '?' the result ends with '/': it is the URL
\* itself when the URL ends with '/', and the URL with one '/' appended
\* otherwise; so it ends with '//' exactly when the URL does.
C8_TrailingSlashEnsured ==
    \A i \in 1..Len(canon) :
        ~HasQuery(Arg(i)) =>
            /\ EndsWith(canon[i], <<"/">>)
            /\ canon[i] = IF EndsWith(Arg(i), <<"/">>) THEN Arg(i)
                          ELSE Arg(i) \o <<"/">>
            /\ EndsWith(canon[i], <<"/", "/">>) <=> EndsWith(Arg(i), <<"/", "/">>)

\* C8 happens: a URL ending in two slashes was formatted and kept both, and
\* formatting the result again kept it.
C8_Witness ==
    /\ Len(canon) >= 2
    /\ ~HasQuery(url)
    /\ EndsWith(url, <<"a", "/", "/">>)
    /\ canon[1] = url
    /\ canon[2] = url

\* C9: for a URL with a '?', the result is never longer than the URL, and is
\* the URL unchanged when the URL does not end with '/'.
C9_NoSlashAppendedWithQuery ==
    \A i \in 1..Len(canon) :
        HasQuery(Arg(i)) =>
            /\ Len(canon[i]) <= Len(Arg(i))
            /\ ~EndsWith(Arg(i), <<"/">>) => canon[i] = Arg(i)

\* C9 happens: a URL with a query and no slash at its end came back unchanged.
C9_Witness ==
    /\ Len(canon) >= 1
    /\ url = <<"/", "a", "?", "a">>
    /\ canon[1] = url

\* C10: for a URL with a '?', the replacement of the query branch does not
\* show in the result: the result is the one replacement of the return
\* statement applied to the URL as given, and a '/' right before the '?' is
\* still there.
C10_QueryBranchReplacementUnused ==
    \A i \in 1..Len(canon) :
        HasQuery(Arg(i)) =>
            /\ canon[i] = IF EndsWith(Arg(i), <<"/">>)
                          THEN SubSeq(Arg(i), 1, Len(Arg(i)) - 1)
                          ELSE Arg(i)
            /\ \A k \in 1..(Len(Arg(i)) - 1) :
                   (Arg(i)[k] = "/" /\ Arg(i)[k + 1] = "?") =>
                       /\ Len(canon[i]) >= k + 1
                       /\ canon[i][k] = "/"
                       /\ canon[i][k + 1] = "?"

\* C10 happens: a URL with a slash before its query and two slashes at its
\* end lost only the last one.
C10_Witness ==
    /\ Len(canon) >= 1
    /\ url = <<"/", "?", "/", "/">>
    /\ canon[1] = <<"/", "?", "/">>

----------------------------------------------------------------------------
(* Properties of the page title *)

StartsWith(s, prefix) ==
    /\ Len(s) >= Len(prefix)
    /\ SubSeq(s, 1, Len(prefix)) = prefix

\* C11 as claimed: whatever the page title, the resolved title neither
\* starts nor ends with " | ", and is the site title when the page title is
\* absent.
C11_NoSeparatorAtEitherEnd ==
    title.defined =>
        /\ ~StartsWith(title.value, <<" ", "|", " ">>)
        /\ ~EndsWith(title.value, <<" ", "|", " ">>)
        /\ ~pageTitle.defined =>
               title.value = <<"C", "o", "d", "e", "r", "i", "k">>

\* C11 amended: the resolved title never ends with " | "; it is the site
\* title when the page title is absent or empty, and otherwise the page
\* title, " | " and the site title; so it starts with " | " exactly when
\* the page title itself does or is " |".
C11_SeparatorOnlyFromPageTitle ==
    title.defined =>
        /\ ~EndsWith(title.value, <<" ", "|", " ">>)
        /\ (~pageTitle.defined \/ pageTitle.value = <<>>) =>
               title.value = <<"C", "o", "d", "e", "r", "i", "k">>
        /\ (pageTitle.defined /\ pageTitle.value # <<>>) =>
               title.value = pageTitle.value \o <<" ", "|", " ">>
                                 \o <<"C", "o", "d", "e", "r", "i", "k">>
        /\ StartsWith(title.value, <<" ", "|", " ">>)
               <=> /\ pageTitle.defined
                   /\ \/ StartsWith(pageTitle.value, <<" ", "|", " ">>)
                      \/ pageTitle.value = <<" ", "|">>

\* C11 happens: a page title that starts with the separator was joined with
\* the site title.
C11_Witness ==
    /\ title.defined
    /\ pageTitle = [defined |-> TRUE, value |-> <<" ", "|", " ", "a">>]
    /\ StartsWith(title.value, <<" ", "|", " ">>)
    /\ EndsWith(title.value, <<"C", "o", "d", "e", "r", "i", "k">>)

----------------------------------------------------------------------------
(* Properties of the social links *)

\* C12: however often the header's socialLinks is evaluated, every field of
\* every entry of siteConfig.socialLinks keeps its configured value.
C12_ConfigurationUnchanged ==
    /\ Len(socialLinks) = Len(configuredLinks)
    /\ \A i \in 1..Len(socialLinks) :
           /\ socialLinks[i].text = configuredLinks[i].text
           /\ socialLinks[i].href = configuredLinks[i].href
           /\ socialLinks[i].icon = configuredLinks[i].icon
           /\ socialLinks[i].header = configuredLinks[i].header

====
